---- MODULE Spec2Model ----
(***************************************************************************)
(* Model of src/openapi_scraper.py: PostgreSQLConnector (connect,          *)
(* disconnect, create_tables, insert_notice), NarajangterOpenAPI           *)
(* (search_bid_notices, get_all_notices, parse_notice_data) and            *)
(* NarajangterPipeline.run.  The upstream API and the PostgreSQL server    *)
(* are the environment.                                                    *)
(***************************************************************************)
EXTENDS Integers, Sequences, FiniteSets, TLC

\* ---------------------------------------------------------------- bounds
MaxPages == 2         \* largest max_pages argument of run()
MaxPageItems == 2     \* most items in one upstream page
MaxDrained == 2       \* most items the upstream serves to one run()
MaxTotal == 2         \* largest totalCount the upstream reports to run()
DrainMaxPages == 4    \* largest max_pages argument of a direct get_all_notices
DrainMaxDrained == 5  \* most items the upstream serves to a direct get_all_notices
DrainMaxTotal == 5    \* largest totalCount reported to a direct get_all_notices

\* ---------------------------------------------------- program constants
NumOfRows == 100      \* get_all_notices(num_of_rows = 100)

\* ------------------------------------------------------- Python values
None == "None"        \* Python None / JSON null / SQL NULL
Missing == "Missing"  \* key not present in a JSON object
NotMap == "NotMap"    \* a JSON value that is not an object (no .get)
Number == "Number"    \* a JSON number other than 0

Truthy(v) == v # None /\ v # ""

\* a or b
PyOr(a, b) == IF Truthy(a) THEN a ELSE b

\* d.get(k, default) where v is the value under k, or Missing
Get(v, default) == IF v = Missing THEN default ELSE v

\* ------------------------------------------------------------ raw items
\* One element of body.items.  kind "map" is a JSON object; kind "str" is a
\* JSON string (what list.extend yields for the keys of an object).
RawItem(no, nm, dm, nt) ==
    [kind |-> "map", bidNtceNo |-> no, bidNtceNm |-> nm,
     dminsttNm |-> dm, ntceInsttNm |-> nt]

StrItem ==
    [kind |-> "str", bidNtceNo |-> Missing, bidNtceNm |-> Missing,
     dminsttNm |-> Missing, ntceInsttNm |-> Missing]

Items ==
    { RawItem("A", "X", "org1", Missing),
      RawItem("A", "Y", Missing, "org2"),
      RawItem(Missing, Missing, "org1", Missing),
      RawItem(None, "X", "org1", Missing),
      RawItem(Missing, "X", None, "org2"),
      RawItem("A", None, "org1", Missing),
      RawItem("B", Number, Missing, Missing) }

RECURSIVE SeqsUpTo(_, _)
SeqsUpTo(S, n) ==
    IF n = 0 THEN { <<>> }
    ELSE LET shorter == SeqsUpTo(S, n - 1)
         IN  shorter \cup { Append(s, x) : s \in { t \in shorter : Len(t) = n - 1 }, x \in S }

\* --------------------------------------------------- upstream responses
\* The value under body.items: a JSON array (shape "list"), a JSON object
\* (shape "dict": iterating it yields its keys, which are strings), a number
\* (no len), null or absent.  list is what iterating the value yields.
ItemsVal(shape, list) == [shape |-> shape, list |-> list]

EmptyList == ItemsVal("list", <<>>)

\* What requests.get + response.json() deliver for one page request.
Envelope(transport, js, response, header, code, body, items, total) ==
    [transport |-> transport, json |-> js, response |-> response,
     header |-> header, resultCode |-> code, resultMsg |-> "msg",
     body |-> body, items |-> items, totalCount |-> total]

\* The value under body.totalCount: the number n, null, or absent.
Total(n) == [kind |-> "number", val |-> n]

NullTotal == [kind |-> "null", val |-> 0]

NoTotal == [kind |-> Missing, val |-> 0]

\* A '00' envelope carrying the items s and totalCount t.
GoodEnvelope(s, t) ==
    Envelope("ok", "ok", "map", "map", "00", "map", ItemsVal("list", s), Total(t))

BadEnvelopes ==
    { Envelope("error", "ok", "map", "map", "00", "map", EmptyList, Total(0)),
      Envelope("ok", "invalid", "map", "map", "00", "map", EmptyList, Total(0)),
      Envelope("ok", "ok", Missing, "map", "00", "map", EmptyList, Total(0)),
      Envelope("ok", "ok", NotMap, "map", "00", "map", EmptyList, Total(0)),
      Envelope("ok", "ok", "map", Missing, "00", "map", EmptyList, Total(0)),
      Envelope("ok", "ok", "map", None, "00", "map", EmptyList, Total(0)),
      Envelope("ok", "ok", "map", "map", "99", "map", EmptyList, Total(0)),
      Envelope("ok", "ok", "map", "map", Missing, "map", EmptyList, Total(0)),
      Envelope("ok", "ok", "map", "map", "00", None, EmptyList, Total(0)),
      Envelope("ok", "ok", "map", "map", "00", Missing, EmptyList, Total(0)),
      Envelope("ok", "ok", "map", "map", "00", "map", ItemsVal("null", <<>>), Total(1)),
      Envelope("ok", "ok", "map", "map", "00", "map", ItemsVal(Missing, <<>>), NoTotal),
      Envelope("ok", "ok", "map", "map", "00", "map", ItemsVal("dict", <<StrItem>>), Total(1)),
      Envelope("ok", "ok", "map", "map", "00", "map", ItemsVal("number", <<>>), Total(1)),
      Envelope("ok", "ok", "map", "map", "00", "map",
               ItemsVal("list", <<RawItem("A", "X", "org1", Missing)>>), NullTotal) }

\* The envelopes the upstream may answer with, when it has items from U to
\* serve, at most room more, and reports totals up to maxTotal.
Envelopes(U, room, maxTotal) ==
    BadEnvelopes \cup
    { GoodEnvelope(s, t) :
        s \in { x \in SeqsUpTo(U, MaxPageItems) : Len(x) <= room },
        t \in 0..maxTotal }

\* ------------------------------------------- NarajangterOpenAPI (client)
\* Query parameters that carry the keyword.
ParamsWithKeyword(keyword, page_no, num_of_rows) ==
    [serviceKey |-> "key", numOfRows |-> num_of_rows, pageNo |-> page_no,
     inqryDiv |-> "1", type |-> "json", indstrytyCd |-> "6146",
     keyword |-> keyword]

\* The query parameters of one page request.
Params(keyword, page_no, num_of_rows) ==
    [serviceKey |-> "key", numOfRows |-> num_of_rows, pageNo |-> page_no,
     inqryDiv |-> "1", type |-> "json", indstrytyCd |-> "6146"]

\* total_ok: total_count is a number (it can be compared with a length).
Failure(msg) ==
    [raised |-> FALSE, success |-> FALSE, error |-> msg,
     items |-> EmptyList, total_count |-> 0, total_ok |-> TRUE]

Raised(exc) ==
    [raised |-> TRUE, success |-> FALSE, error |-> exc,
     items |-> EmptyList, total_count |-> 0, total_ok |-> TRUE]

\* items if items else []
ItemsOrEmpty(items) == IF Len(items.list) > 0 THEN items ELSE EmptyList

\* What search_bid_notices does with the upstream's answer env: a result
\* dict, or (raised) an exception that leaves the function.
search_bid_notices(env, keyword, page_no, num_of_rows) ==
    IF env.transport = "error" THEN Failure("RequestException")
    ELSE IF env.json = "invalid" THEN Failure("JSONDecodeError")
    ELSE IF env.response = Missing THEN Failure("Invalid response format")
    ELSE IF env.response = NotMap THEN Raised("AttributeError")
    ELSE IF env.header = None THEN Raised("AttributeError")
    ELSE LET result_code == IF env.header = Missing THEN ""
                            ELSE Get(env.resultCode, "")
         IN  IF result_code = "00"
             THEN IF env.body = None THEN Raised("AttributeError")
                  ELSE LET items == IF env.body = Missing \/ env.items.shape = Missing
                                    THEN EmptyList ELSE env.items
                           total_count == IF env.body = Missing THEN NoTotal
                                          ELSE env.totalCount
                       IN  IF items.shape = "number" THEN Raised("TypeError")
                           ELSE [raised |-> FALSE, success |-> TRUE, error |-> "",
                                 items |-> ItemsOrEmpty(items),
                                 total_count |-> total_count.val,
                                 total_ok |-> total_count.kind # "null"]
             ELSE Failure(IF env.header = Missing THEN "unknown"
                          ELSE Get(env.resultMsg, "unknown"))

\* The loop test with > for >=.
ReachedTotalStrict(n, total_count) == n > total_count

\* len(all_items) >= total_count: the test that ends the page loop.
ReachedTotal(n, total_count) == n >= total_count

\* parse_notice_data on a JSON object (a non-object has no .get and raises).
parse_notice_data(raw_item) ==
    [notice_id |-> Get(raw_item.bidNtceNo, ""),
     title |-> Get(raw_item.bidNtceNm, ""),
     organization |-> PyOr(Get(raw_item.dminsttNm, ""), Get(raw_item.ntceInsttNm, "")),
     raw_data |-> <<"json", raw_item>>]

\* The identity test with and for or.
HasIdentityBoth(parsed) == Truthy(parsed.notice_id) /\ Truthy(parsed.title)

\* if parsed_notice.get('notice_id') or parsed_notice.get('title')
HasIdentity(parsed) == Truthy(parsed.notice_id) \/ Truthy(parsed.title)

\* ------------------------------------------------ PostgreSQLConnector
\* The upsert without updated_at = CURRENT_TIMESTAMP in its SET list.
UpsertRowsNoRefresh(rows, n, t) ==
    IF n.notice_id # None /\ \E i \in DOMAIN rows : rows[i].notice_id = n.notice_id
    THEN [i \in DOMAIN rows |->
            IF rows[i].notice_id = n.notice_id
            THEN [rows[i] EXCEPT !.title = n.title,
                                 !.organization = n.organization,
                                 !.raw_data = n.raw_data]
            ELSE rows[i]]
    ELSE Append(rows, [notice_id |-> n.notice_id, title |-> n.title,
                       organization |-> n.organization, raw_data |-> n.raw_data,
                       scraped_at |-> t, updated_at |-> t])

\* The rows of audit_notices after the upsert statement of insert_notice
\* committed for the notice n in a transaction that began at time t.
\* notice_id is UNIQUE and nullable: a NULL never conflicts.
UpsertRows(rows, n, t) ==
    IF n.notice_id # None /\ \E i \in DOMAIN rows : rows[i].notice_id = n.notice_id
    THEN [i \in DOMAIN rows |->
            IF rows[i].notice_id = n.notice_id
            THEN [rows[i] EXCEPT !.title = n.title,
                                 !.organization = n.organization,
                                 !.raw_data = n.raw_data,
                                 !.updated_at = t]
            ELSE rows[i]]
    ELSE Append(rows, [notice_id |-> n.notice_id, title |-> n.title,
                       organization |-> n.organization, raw_data |-> n.raw_data,
                       scraped_at |-> t, updated_at |-> t])

\* title VARCHAR(500) NOT NULL
ViolatesNotNull(n) == n.title = None

\* title[:50] in the log lines of run raises TypeError unless title is a str.
SliceRaises(title) == title \in { None, Number }

\* A new connection object and its cursor.
NewConn == [closed |-> FALSE, broken |-> FALSE, closeCalls |-> 0, cursorCloseCalls |-> 0]

\* disconnect() that closes the cursor and leaves the connection open.
DisconnectCursorOnly(cs, cursor, connection) ==
    [c \in DOMAIN cs |->
        [cs[c] EXCEPT !.cursorCloseCalls = @ + (IF cursor = c THEN 1 ELSE 0)]]

\* disconnect(): close the cursor if set, close the connection if set
\* (0 stands for None).
DisconnectConns(cs, cursor, connection) ==
    [c \in DOMAIN cs |->
        [cs[c] EXCEPT
           !.cursorCloseCalls = @ + (IF cursor = c THEN 1 ELSE 0),
           !.closeCalls = @ + (IF connection = c THEN 1 ELSE 0),
           !.closed = @ \/ connection = c]]

\* ------------------------------------------- parse_notice_data: fields
\* The field parsers nested in parse_notice_data.  A Python value is given
\* with its type and its str(): text is a sequence of characters.
MaxDateLen == 10

MaxPriceLen == 5

PyStr(text) == [type |-> "str", text |-> text]

PyInt(text) == [type |-> "int", text |-> text]

PyNone == [type |-> "NoneType", text |-> <<"N", "o", "n", "e">>]

\* bool(v): None, '' and the number 0 are false.
Bool(v) ==
    CASE v.type = "NoneType" -> FALSE
      [] v.type = "str" -> v.text # <<>>
      [] v.type = "int" -> v.text # <<"0">>

\* What a parser returns: None, a str or an int.
RetNone == [type |-> "NoneType", text |-> <<>>, val |-> 0]

RetStr(text) == [type |-> "str", text |-> text, val |-> 0]

RetInt(n) == [type |-> "int", text |-> <<>>, val |-> n]

Digits == { "0", "1", "2", "9" }

DigitVal(c) == CASE c = "0" -> 0 [] c = "1" -> 1 [] c = "2" -> 2 [] c = "9" -> 9

\* s.strip()
RECURSIVE LStrip(_)
LStrip(s) == IF s # <<>> /\ Head(s) = " " THEN LStrip(Tail(s)) ELSE s

RECURSIVE RStrip(_)
RStrip(s) ==
    IF s # <<>> /\ s[Len(s)] = " " THEN RStrip(SubSeq(s, 1, Len(s) - 1)) ELSE s

Strip(s) == RStrip(LStrip(s))

\* s.isdigit()
IsDigit(s) == s # <<>> /\ \A i \in DOMAIN s : s[i] \in Digits

\* c in s
Contains(s, c) == \E i \in DOMAIN s : s[i] = c

\* s[:n]
Slice(s, n) == SubSeq(s, 1, IF Len(s) < n THEN Len(s) ELSE n)

\* f"{s[:4]}-{s[4:6]}-{s[6:8]}"
DashDate(s) ==
    SubSeq(s, 1, 4) \o <<"-">> \o SubSeq(s, 5, 6) \o <<"-">> \o SubSeq(s, 7, 8)

\* parse_date taking the digit branch for exactly 8 digits only.
parse_dateEightOnly(date_str) ==
    IF ~Bool(date_str) THEN RetNone
    ELSE LET s == Strip(date_str.text)
         IN  IF s = <<>> \/ Len(s) < 8 THEN RetNone
             ELSE IF IsDigit(s) /\ Len(s) = 8 THEN RetStr(DashDate(s))
             ELSE IF Contains(s, "-") /\ Len(s) >= 10 THEN RetStr(Slice(s, 10))
             ELSE RetNone

parse_date(date_str) ==
    IF ~Bool(date_str) THEN RetNone
    ELSE LET s == Strip(date_str.text)
         IN  IF s = <<>> \/ Len(s) < 8 THEN RetNone
             ELSE IF IsDigit(s) /\ Len(s) >= 8 THEN RetStr(DashDate(s))
             ELSE IF Contains(s, "-") /\ Len(s) >= 10 THEN RetStr(Slice(s, 10))
             ELSE RetNone

\* s.replace(",", "")
RECURSIVE RemoveCommas(_)
RemoveCommas(s) ==
    IF s = <<>> THEN <<>>
    ELSE IF Head(s) = "," THEN RemoveCommas(Tail(s))
    ELSE <<Head(s)>> \o RemoveCommas(Tail(s))

\* The value of a sequence of decimal digits (0 for none).
RECURSIVE DecVal(_)
DecVal(s) ==
    IF s = <<>> THEN 0
    ELSE 10 * DecVal(SubSeq(s, 1, Len(s) - 1)) + DigitVal(s[Len(s)])

\* float(s) for a text of digits, '.', '-' and other characters: an optional
\* sign, then digits with at most one point and at least one digit.
Unsigned(s) == IF s # <<>> /\ Head(s) = "-" THEN Tail(s) ELSE s

FloatParses(s) ==
    LET u == Unsigned(Strip(s))
    IN  /\ \A i \in DOMAIN u : u[i] \in Digits \cup { "." }
        /\ Cardinality({ i \in DOMAIN u : u[i] = "." }) <= 1
        /\ \E i \in DOMAIN u : u[i] \in Digits

\* int(float(s)): the digits before the point, with the sign.
IntOfFloat(s) ==
    LET t == Strip(s)
        u == Unsigned(t)
        points == { i \in DOMAIN u : u[i] = "." }
        whole == IF points = {} THEN u
                 ELSE SubSeq(u, 1, (CHOOSE i \in points : TRUE) - 1)
    IN  IF t # u THEN 0 - DecVal(whole) ELSE DecVal(whole)

parse_price(price_str) ==
    IF ~Bool(price_str) THEN RetNone
    ELSE LET s == RemoveCommas(price_str.text)
         IN  IF FloatParses(s) THEN RetInt(IntOfFloat(s)) ELSE RetNone

\* ------------------------------------------------------------------ state
VARIABLES
    pc,          \* where run() is: "idle", "connect", "create_tables", "drain",
                 \* "records", "finally", "returned"; "responded" when
                 \* run_scraper has answered
    keyword,     \* run(keyword, max_pages)
    max_pages,
    result,      \* the summary dict of run()
    page,        \* get_all_notices: the loop variable
    brk,         \* get_all_notices: the loop was left by break
    all_items,   \* get_all_notices: all_items
    notices,     \* run: notices
    idx,         \* run: the enumerate index of the record loop
    connection,  \* self.db.connection (0 is None, else an index of conns)
    cursor,      \* self.db.cursor
    conns,       \* the connection objects psycopg2.connect has returned
    rows,        \* the rows of audit_notices, in insertion order
    now,         \* the server clock
    requests,    \* history: the parameters of the page requests of this call
    envs,        \* history: what the upstream answered to each request
    pages,       \* history: the results search_bid_notices returned
    outcome,     \* history: what happened to each record of the loop
    trace,       \* history: the steps of this run, in order
    exc,         \* history: the fault raised by connect, create_tables or
                 \* get_all_notices in this run, or "none"
    response,    \* web_viewer.run_scraper: the JSON answers sent so far
    fn,          \* the field parser that is called, or "none"
    arg,         \* its argument
    ret,         \* what it returned, as a one-element sequence
    twin,        \* what an earlier run with another keyword, in the same
                 \* world, sent and returned (empty if there is none)
    runs,        \* history: the run() calls counted on a pipeline object
                 \* that is used for several runs
    txn,         \* overlapping runs: for each run its notices, its place in
                 \* the record loop and its open transaction
    commits      \* history: the upserts committed by overlapping runs, in
                 \* commit order

vars == <<pc, keyword, max_pages, result, page, brk, all_items, notices, idx,
          connection, cursor, conns, rows, now, requests, envs, pages,
          outcome, trace, exc, response, fn, arg, ret, twin, runs, txn, commits>>

dbVars == <<connection, cursor, conns, rows, now>>
drainVars == <<page, brk, all_items, requests, envs, pages>>
recordVars == <<notices, idx, outcome>>
parseVars == <<fn, arg, ret>>
concVars == <<txn, commits>>

\* The default keyword of run() and one other.
Keywords == { "audit", "other" }

InitResult == [success |-> FALSE, scraped_count |-> 0, inserted_count |-> 0,
               errors |-> <<>>]

Init ==
    /\ pc = "idle"
    /\ keyword = "audit"
    /\ max_pages = 0
    /\ result = InitResult
    /\ page = 1
    /\ brk = FALSE
    /\ all_items = <<>>
    /\ notices = <<>>
    /\ idx = 1
    /\ connection = 0
    /\ cursor = 0
    /\ conns = <<>>
    /\ rows = <<>>
    /\ now = 0
    /\ requests = <<>>
    /\ envs = <<>>
    /\ pages = <<>>
    /\ outcome = <<>>
    /\ trace = <<>>
    /\ exc = "none"
    /\ response = <<>>
    /\ fn = "none"
    /\ arg = PyNone
    /\ ret = <<>>
    /\ twin = <<>>
    /\ runs = 0
    /\ txn = <<>>
    /\ commits = <<>>

\* ------------------------------------------------------------ run(): steps
\* The outer except of run: the message is appended to errors; the finally
\* clause is next.
PipelineFails(e) ==
    /\ result' = [result EXCEPT !.errors = Append(@, <<"pipeline", e>>)]
    /\ exc' = e
    /\ pc' = "finally"

\* A caller calls run(k, mp): the summary is initialised.
Start ==
    /\ pc = "idle"
    /\ \E k \in Keywords, mp \in 0..MaxPages :
         /\ keyword' = k
         /\ max_pages' = mp
    /\ result' = InitResult
    /\ pc' = "connect"
    /\ trace' = <<>>
    /\ exc' = "none"
    /\ UNCHANGED <<concVars, runs, twin, parseVars, response, dbVars, drainVars, recordVars>>

\* connect() that goes on to the page loop without create_tables().
ConnectSkipsSchema ==
    /\ pc = "connect"
    /\ trace' = Append(trace, "connect")
    /\ \/ /\ conns' = Append(conns, NewConn)
          /\ connection' = Len(conns) + 1
          /\ cursor' = Len(conns) + 1
          /\ pc' = "drain"
          /\ UNCHANGED <<result, exc>>
       \/ /\ PipelineFails("connect")
          /\ UNCHANGED <<connection, cursor, conns>>
    /\ UNCHANGED <<concVars, runs, twin, parseVars, response, keyword, max_pages, rows, now, drainVars, recordVars>>

\* connect() that logs a failed psycopg2.connect and does not re-raise.
ConnectSwallowsError ==
    /\ pc = "connect"
    /\ trace' = Append(trace, "connect")
    /\ \/ /\ conns' = Append(conns, NewConn)
          /\ connection' = Len(conns) + 1
          /\ cursor' = Len(conns) + 1
          /\ pc' = "create_tables"
          /\ UNCHANGED <<result, exc>>
       \/ /\ pc' = "create_tables"
          /\ exc' = "connect"
          /\ UNCHANGED <<result, connection, cursor, conns>>
    /\ UNCHANGED <<concVars, runs, twin, parseVars, response, keyword, max_pages, rows, now, drainVars, recordVars>>

\* self.db.connect(): psycopg2.connect returns a connection, or raises and
\* connect re-raises.
Connect ==
    /\ pc = "connect"
    /\ trace' = Append(trace, "connect")
    /\ \/ /\ conns' = Append(conns, NewConn)
          /\ connection' = Len(conns) + 1
          /\ cursor' = Len(conns) + 1
          /\ pc' = "create_tables"
          /\ UNCHANGED <<result, exc>>
       \/ /\ PipelineFails("connect")
          /\ UNCHANGED <<connection, cursor, conns>>
    /\ UNCHANGED <<concVars, runs, twin, parseVars, response, keyword, max_pages, rows, now, drainVars, recordVars>>

\* create_tables() that rolls a failed statement back and does not re-raise.
CreateTablesSwallowsError ==
    /\ pc = "create_tables"
    /\ trace' = Append(trace, "create_tables")
    /\ now' = now + 1
    /\ pc' = "drain"
    /\ page' = 1
    /\ brk' = FALSE
    /\ all_items' = <<>>
    /\ requests' = <<>>
    /\ envs' = <<>>
    /\ pages' = <<>>
    /\ UNCHANGED result
    /\ \/ UNCHANGED exc
       \/ exc' = "create_tables"
    /\ UNCHANGED <<concVars, runs, twin, parseVars, response, keyword, max_pages, connection, cursor, conns, rows, recordVars>>

\* self.db.create_tables(): CREATE TABLE IF NOT EXISTS commits, or the
\* statement fails, is rolled back and the error is re-raised.
CreateTables ==
    /\ pc = "create_tables"
    /\ trace' = Append(trace, "create_tables")
    /\ now' = now + 1
    /\ \/ /\ pc' = "drain"
          /\ page' = 1
          /\ brk' = FALSE
          /\ all_items' = <<>>
          /\ requests' = <<>>
          /\ envs' = <<>>
          /\ pages' = <<>>
          /\ UNCHANGED <<result, exc>>
       \/ /\ PipelineFails("create_tables")
          /\ UNCHANGED drainVars
    /\ UNCHANGED <<concVars, runs, twin, parseVars, response, keyword, max_pages, connection, cursor, conns, rows, recordVars>>

\* One iteration of the page loop of get_all_notices, for the upstream
\* answer env.  An exception of search_bid_notices, or the TypeError of
\* comparing a length with a total_count that is no number, leaves
\* get_all_notices.
PageStep(env) ==
    LET r == search_bid_notices(env, keyword, page, NumOfRows)
    IN  /\ requests' = Append(requests, Params(keyword, page, NumOfRows))
        /\ envs' = Append(envs, env)
        /\ pages' = Append(pages, r)
        /\ trace' = Append(trace, "search")
        /\ IF r.raised
           THEN /\ PipelineFails("drain")
                /\ UNCHANGED <<page, brk, all_items>>
           ELSE IF ~r.success \/ Len(r.items.list) = 0
           THEN /\ brk' = TRUE
                /\ UNCHANGED <<result, exc, pc, page, all_items>>
           ELSE /\ all_items' = all_items \o r.items.list
                /\ IF ~r.total_ok
                   THEN /\ PipelineFails("drain")
                        /\ UNCHANGED <<page, brk>>
                   ELSE /\ UNCHANGED <<result, exc, pc>>
                        /\ IF ReachedTotal(Len(all_items) + Len(r.items.list), r.total_count)
                           THEN brk' = TRUE /\ page' = page
                           ELSE brk' = FALSE /\ page' = page + 1

\* for page in range(1, max_pages + 1): one page is requested.
SearchPage ==
    /\ pc = "drain"
    /\ ~brk
    /\ page <= max_pages
    /\ \E env \in Envelopes(Items, MaxDrained - Len(all_items), MaxTotal) :
         PageStep(env)
    /\ UNCHANGED <<concVars, runs, twin, parseVars, response, keyword, max_pages, dbVars, recordVars>>

\* get_all_notices returns all_items; run records scraped_count.
GetAllReturn ==
    /\ pc = "drain"
    /\ brk \/ page > max_pages
    /\ notices' = all_items
    /\ result' = [result EXCEPT !.scraped_count = Len(all_items)]
    /\ idx' = 1
    /\ outcome' = <<>>
    /\ pc' = "records"
    /\ UNCHANGED <<concVars, runs, twin, parseVars, response, keyword, max_pages, dbVars, drainVars, trace, exc>>

\* What the server may do with the upsert of the notice n on connection c:
\* commit it ("ok"), reject the statement ("fault": psycopg2.Error from
\* execute, the rollback succeeds) or drop the connection ("lost": execute
\* raises and so does the rollback in the handler).
InsertOutcomes(n, c) ==
    { o \in { "ok", "fault", "lost" } :
        /\ (o = "ok") => (~c.broken /\ ~ViolatesNotNull(n))
        /\ (o = "fault") => ~c.broken }

\* The summary after insert_notice returned ok (True or False) for a notice
\* with this title: the count, then the log line that slices the title.
Tally(res, ok, title) ==
    LET counted == IF ok THEN [res EXCEPT !.inserted_count = @ + 1] ELSE res
    IN  IF SliceRaises(title)
        THEN [counted EXCEPT !.errors = Append(@, <<"record", "TypeError">>)]
        ELSE counted

\* The inner except of run: the message is appended to errors.
RecordFails(res, e) == [res EXCEPT !.errors = Append(@, <<"record", e>>)]

\* What one iteration did: how it ended, the insert_notice calls it made,
\* the time of its transaction (0 if none), and what it added to
\* inserted_count and to errors.
Outcome(tag, upserts, at, before, after) ==
    [tag |-> tag, upserts |-> upserts, at |-> at,
     inserted |-> after.inserted_count - before.inserted_count,
     errors |-> Len(after.errors) - Len(before.errors)]

\* One iteration of the record loop of run, for the raw item raw.
RecordStep(raw) ==
    IF raw.kind # "map"
    THEN /\ result' = RecordFails(result, "AttributeError")
         /\ outcome' = Append(outcome, Outcome("maperr", 0, 0, result, result'))
         /\ UNCHANGED <<dbVars, trace>>
    ELSE LET parsed == parse_notice_data(raw)
         IN  IF HasIdentity(parsed)
             THEN /\ trace' = Append(trace, "upsert")
                  /\ now' = now + 1
                  /\ UNCHANGED <<connection, cursor>>
                  /\ \E o \in InsertOutcomes(parsed, conns[connection]) :
                       \/ /\ o = "ok"
                          /\ rows' = UpsertRows(rows, parsed, now + 1)
                          /\ result' = Tally(result, TRUE, parsed.title)
                          /\ outcome' = Append(outcome, Outcome("inserted", 1, now + 1, result, result'))
                          /\ UNCHANGED conns
                       \/ /\ o = "fault"
                          /\ result' = Tally(result, FALSE, parsed.title)
                          /\ outcome' = Append(outcome, Outcome("fault", 1, now + 1, result, result'))
                          /\ UNCHANGED <<rows, conns>>
                       \/ /\ o = "lost"
                          /\ conns' = [conns EXCEPT ![connection].broken = TRUE]
                          /\ result' = RecordFails(result, "InterfaceError")
                          /\ outcome' = Append(outcome, Outcome("lost", 1, now + 1, result, result'))
                          /\ UNCHANGED rows
             ELSE /\ UNCHANGED <<result, dbVars, trace>>
                  /\ outcome' = Append(outcome, Outcome("skipped", 0, 0, result, result'))

\* for idx, raw_notice in enumerate(notices, 1): one record is processed.
ProcessRecord ==
    /\ pc = "records"
    /\ idx <= Len(notices)
    /\ RecordStep(notices[idx])
    /\ idx' = idx + 1
    /\ UNCHANGED <<pc, keyword, max_pages, notices, drainVars, exc, response, parseVars, twin, runs, concVars>>

\* A loop end that reports success only if something was inserted.
FinishNeedsInsert ==
    /\ pc = "records"
    /\ idx > Len(notices)
    /\ result' = [result EXCEPT !.success = (result.inserted_count > 0)]
    /\ trace' = Append(trace, "report")
    /\ pc' = "finally"
    /\ UNCHANGED <<concVars, runs, twin, parseVars, response, keyword, max_pages, dbVars, drainVars, recordVars, exc>>

\* The record loop is over: result["success"] = True.
Finish ==
    /\ pc = "records"
    /\ idx > Len(notices)
    /\ result' = [result EXCEPT !.success = TRUE]
    /\ trace' = Append(trace, "report")
    /\ pc' = "finally"
    /\ UNCHANGED <<concVars, runs, twin, parseVars, response, keyword, max_pages, dbVars, drainVars, recordVars, exc>>

\* finally: self.db.disconnect(); then run returns the summary.
Disconnect ==
    /\ pc = "finally"
    /\ conns' = DisconnectConns(conns, cursor, connection)
    /\ trace' = Append(trace, "disconnect")
    /\ pc' = "returned"
    /\ UNCHANGED <<concVars, runs, twin, parseVars, response, keyword, max_pages, result, connection, cursor, rows, now,
                   drainVars, recordVars, exc>>

Next ==
    \/ Start
    \/ Connect
    \/ CreateTables
    \/ SearchPage
    \/ GetAllReturn
    \/ ProcessRecord
    \/ Finish
    \/ Disconnect

Spec == Init /\ [][Next]_vars

\* ------------------------------------------ web_viewer: POST /api/scrape
\* run_scraper builds a new pipeline, calls run(max_pages = ...) with the
\* default keyword and answers with a summary of the result.
ErrorsCap == 5

ScrapeMaxRecords == 6

Take(s, n) == SubSeq(s, 1, IF Len(s) < n THEN Len(s) ELSE n)

\* The answer with the whole errors list.
RunScraperResponseUncapped(res) ==
    [success |-> res.success, scraped_count |-> res.scraped_count,
     inserted_count |-> res.inserted_count, errors |-> res.errors]

\* jsonify({...}) of run_scraper for the result res of pipeline.run.
RunScraperResponse(res) ==
    [success |-> res.success, scraped_count |-> res.scraped_count,
     inserted_count |-> res.inserted_count,
     errors |-> IF Len(res.errors) > 0 THEN Take(res.errors, ErrorsCap) ELSE <<>>]

\* The upstream of this specification serves a titled item and one with a
\* null title, all on one page, and reports their number as totalCount.
ScrapeItems == { RawItem("A", "X", "org1", Missing), RawItem("A", None, "org1", Missing) }

ScrapeEnvelopes ==
    { GoodEnvelope(s, Len(s)) : s \in SeqsUpTo(ScrapeItems, ScrapeMaxRecords) }
    \cup { Envelope("error", "ok", "map", "map", "00", "map", EmptyList, Total(0)),
           Envelope("ok", "ok", NotMap, "map", "00", "map", EmptyList, Total(0)) }

\* pipeline.run(max_pages=max_pages): the keyword is run's default.
ScrapeStart ==
    /\ pc = "idle"
    /\ keyword' = "audit"
    /\ \E mp \in 0..MaxPages : max_pages' = mp
    /\ result' = InitResult
    /\ pc' = "connect"
    /\ trace' = <<>>
    /\ exc' = "none"
    /\ UNCHANGED <<concVars, runs, twin, parseVars, response, dbVars, drainVars, recordVars>>

ScrapeSearchPage ==
    /\ pc = "drain"
    /\ ~brk
    /\ page <= max_pages
    /\ \E env \in ScrapeEnvelopes : PageStep(env)
    /\ UNCHANGED <<concVars, runs, twin, parseVars, response, keyword, max_pages, dbVars, recordVars>>

\* run returned: run_scraper sends the summary.
RunScraperResponds ==
    /\ pc = "returned"
    /\ response' = Append(response, RunScraperResponse(result))
    /\ pc' = "responded"
    /\ UNCHANGED <<concVars, runs, twin, parseVars, keyword, max_pages, result, dbVars, drainVars, recordVars, trace, exc>>

ScrapeNext ==
    \/ ScrapeStart
    \/ Connect
    \/ CreateTables
    \/ ScrapeSearchPage
    \/ GetAllReturn
    \/ ProcessRecord
    \/ Finish
    \/ Disconnect
    \/ RunScraperResponds

ScrapeSpec == Init /\ [][ScrapeNext]_vars

\* ------------------------------------------------------ the field parsers
\* parse_date and parse_price applied to one value of a raw item.
Texts(chars, n) == UNION { [1..k -> chars] : k \in 0..n }

\* Digits; digits and blanks; digits and hyphens, also between blanks.
DateTexts ==
    Texts({ "1", "2" }, MaxDateLen) \cup Texts({ "1", " " }, MaxDateLen)
    \cup { l \o t \o r : t \in Texts({ "1", "-" }, MaxDateLen),
                          l \in { <<>>, <<" ">> }, r \in { <<>>, <<" ">> } }

PriceTexts == Texts({ "1", "9", ",", ".", "-", "x" }, MaxPriceLen)

\* str(n) of a JSON integer: no sign here, no leading zero.
IntTexts(texts) ==
    { <<"0">> } \cup { t \in texts : t # <<>> /\ \A i \in DOMAIN t : t[i] \in { "1", "2", "9" } }

DateArgs ==
    { PyNone } \cup { PyStr(t) : t \in DateTexts } \cup { PyInt(t) : t \in IntTexts(DateTexts) }

PriceArgs ==
    { PyNone } \cup { PyStr(t) : t \in PriceTexts } \cup { PyInt(t) : t \in IntTexts(PriceTexts) }

ParseInit ==
    /\ pc = "idle"
    /\ keyword = "audit"
    /\ max_pages = 0
    /\ result = InitResult
    /\ page = 1
    /\ brk = FALSE
    /\ all_items = <<>>
    /\ notices = <<>>
    /\ idx = 1
    /\ connection = 0
    /\ cursor = 0
    /\ conns = <<>>
    /\ rows = <<>>
    /\ now = 0
    /\ requests = <<>>
    /\ envs = <<>>
    /\ pages = <<>>
    /\ outcome = <<>>
    /\ trace = <<>>
    /\ exc = "none"
    /\ response = <<>>
    /\ ret = <<>>
    /\ twin = <<>>
    /\ runs = 0
    /\ txn = <<>>
    /\ commits = <<>>
    /\ \/ fn = "parse_date" /\ arg \in DateArgs
       \/ fn = "parse_price" /\ arg \in PriceArgs

ParseFrame ==
    UNCHANGED <<pc, keyword, max_pages, result, dbVars, drainVars, recordVars,
                trace, exc, response, fn, arg, twin, runs, concVars>>

ParseDate ==
    /\ fn = "parse_date"
    /\ ret = <<>>
    /\ ret' = <<parse_date(arg)>>
    /\ ParseFrame

ParsePrice ==
    /\ fn = "parse_price"
    /\ ret = <<>>
    /\ ret' = <<parse_price(arg)>>
    /\ ParseFrame

ParseNext == ParseDate \/ ParsePrice

ParseSpec == ParseInit /\ [][ParseNext]_vars

\* ------------------------------------------- two runs, two keywords
\* run() with one keyword and then, in the same world (the same empty
\* store, the same upstream answers, the same store faults), run() with
\* another keyword.
TwinItems == { RawItem("A", "X", "org1", Missing), RawItem("A", "Y", "org1", Missing) }

IsPrefix(s, t) == Len(s) <= Len(t) /\ \A i \in DOMAIN s : s[i] = t[i]

\* The world of the second run decides as it did in the first: the same
\* steps fail, the upstream sends the same answers, the store treats each
\* upsert as before.
Replays ==
    twin # <<>> =>
        LET t == twin[1]
        IN  /\ IsPrefix(trace', t.trace)
            /\ IsPrefix(envs', t.envs)
            /\ Len(outcome') <= Len(t.outcome)
            /\ \A i \in DOMAIN outcome' : outcome'[i].tag = t.outcome[i].tag
            /\ (exc' # "none") <=>
                   (t.exc # "none" /\ Len(trace') >= Len(t.trace) - 1)

TwinStart ==
    /\ Start
    /\ twin # <<>> => (keyword' # twin[1].keyword /\ max_pages' = twin[1].max_pages)

TwinConnect == Connect /\ Replays

TwinCreateTables == CreateTables /\ Replays

TwinSearchPage ==
    /\ pc = "drain"
    /\ ~brk
    /\ page <= max_pages
    /\ \E env \in Envelopes(TwinItems, MaxDrained - Len(all_items), MaxTotal) :
         PageStep(env)
    /\ UNCHANGED <<concVars, runs, twin, parseVars, response, keyword, max_pages, dbVars, recordVars>>
    /\ Replays

TwinGetAllReturn == GetAllReturn /\ Replays

TwinProcessRecord == ProcessRecord /\ Replays

TwinFinish == Finish /\ Replays

TwinDisconnect == Disconnect /\ Replays

\* The first run returned: what it sent and returned is kept, and the world
\* is as it was before that run.
Rewind ==
    /\ pc = "returned"
    /\ twin = <<>>
    /\ twin' = <<[keyword |-> keyword, max_pages |-> max_pages,
                  requests |-> requests, envs |-> envs, notices |-> notices,
                  result |-> result, rows |-> rows, outcome |-> outcome,
                  trace |-> trace, exc |-> exc]>>
    /\ pc' = "idle"
    /\ result' = InitResult
    /\ page' = 1
    /\ brk' = FALSE
    /\ all_items' = <<>>
    /\ notices' = <<>>
    /\ idx' = 1
    /\ connection' = 0
    /\ cursor' = 0
    /\ conns' = <<>>
    /\ rows' = <<>>
    /\ now' = 0
    /\ requests' = <<>>
    /\ envs' = <<>>
    /\ pages' = <<>>
    /\ outcome' = <<>>
    /\ trace' = <<>>
    /\ exc' = "none"
    /\ UNCHANGED <<keyword, max_pages, response, parseVars, runs, concVars>>

TwinNext ==
    \/ TwinStart
    \/ TwinConnect
    \/ TwinCreateTables
    \/ TwinSearchPage
    \/ TwinGetAllReturn
    \/ TwinProcessRecord
    \/ TwinFinish
    \/ TwinDisconnect
    \/ Rewind

TwinSpec == Init /\ [][TwinNext]_vars

\* ------------------------------------- run() again on the same pipeline
\* The pipeline object keeps self.db, and with it the connection and cursor
\* attributes and the store, from one run() to the next.  Each run drains at
\* most one item: an item without bidNtceNo, or one whose bidNtceNo is null.
MaxRuns == 2

ReuseItems ==
    { RawItem(Missing, "X", "org1", Missing), RawItem(Missing, "Y", "org1", Missing),
      RawItem(None, "X", "org1", Missing) }

ReuseEnvelopes ==
    { GoodEnvelope(s, Len(s)) : s \in SeqsUpTo(ReuseItems, 1) }
    \cup { Envelope("error", "ok", "map", "map", "00", "map", EmptyList, Total(0)) }

\* run() is called on a pipeline object: a new one, or one whose earlier
\* run returned.
ReuseStart ==
    /\ pc \in { "idle", "returned" }
    /\ runs < MaxRuns
    /\ runs' = runs + 1
    /\ keyword' = "audit"
    /\ max_pages' = 1
    /\ result' = InitResult
    /\ pc' = "connect"
    /\ trace' = <<>>
    /\ exc' = "none"
    /\ UNCHANGED <<concVars, twin, parseVars, response, dbVars, drainVars, recordVars>>

ReuseSearchPage ==
    /\ pc = "drain"
    /\ ~brk
    /\ page <= max_pages
    /\ \E env \in ReuseEnvelopes : PageStep(env)
    /\ UNCHANGED <<concVars, runs, twin, parseVars, response, keyword, max_pages, dbVars, recordVars>>

ReuseNext ==
    \/ ReuseStart
    \/ Connect
    \/ CreateTables
    \/ ReuseSearchPage
    \/ GetAllReturn
    \/ ProcessRecord
    \/ Finish
    \/ Disconnect

ReuseSpec == Init /\ [][ReuseNext]_vars

\* ------------------------------------------------- two overlapping runs
\* Two pipeline runs, each with its own connection, in their record loops at
\* the same time, upserting notices of one notice_id into one store.  The
\* store runs each insert_notice as one transaction (READ COMMITTED): the
\* INSERT ... ON CONFLICT statement waits while another transaction holds an
\* uncommitted write of the same notice_id, and then inserts or updates
\* against what is committed.
MaxConcNotices == 2

Runs == { 1, 2 }

ConcItems == { RawItem("A", "X", "org1", Missing), RawItem("A", "Y", "org2", Missing) }

NoWrite == [open |-> FALSE, conflict |-> FALSE, n |-> parse_notice_data(RawItem("A", "X", "org1", Missing)), t |-> 0]

\* A store that lets the statement run beside an uncommitted write of the
\* same notice_id.
NeverBlocked(p, id) == FALSE

\* The statement of run p for notice_id id has to wait.
Blocked(p, id) ==
    \E q \in Runs \ { p } : txn[q].write.open /\ txn[q].write.n.notice_id = id

\* The write of a committed transaction becomes visible.
ApplyWrite(rs, w) ==
    IF w.conflict
    THEN UpsertRows(rs, w.n, w.t)
    ELSE Append(rs, [notice_id |-> w.n.notice_id, title |-> w.n.title,
                     organization |-> w.n.organization, raw_data |-> w.n.raw_data,
                     scraped_at |-> w.t, updated_at |-> w.t])

ConcInit ==
    /\ pc = "records"
    /\ keyword = "audit"
    /\ max_pages = 0
    /\ result = InitResult
    /\ page = 1
    /\ brk = FALSE
    /\ all_items = <<>>
    /\ notices = <<>>
    /\ idx = 1
    /\ connection = 0
    /\ cursor = 0
    /\ conns = <<>>
    /\ rows \in { <<>>, UpsertRows(<<>>, parse_notice_data(RawItem("A", "X", "org1", Missing)), 1) }
    /\ now = 1
    /\ requests = <<>>
    /\ envs = <<>>
    /\ pages = <<>>
    /\ outcome = <<>>
    /\ trace = <<>>
    /\ exc = "none"
    /\ response = <<>>
    /\ fn = "none"
    /\ arg = PyNone
    /\ ret = <<>>
    /\ twin = <<>>
    /\ runs = 0
    /\ txn \in [Runs -> { [notices |-> q, idx |-> 1, write |-> NoWrite] :
                            q \in SeqsUpTo(ConcItems, MaxConcNotices) \ { <<>> } }]
    /\ commits = <<>>

ConcFrame ==
    UNCHANGED <<pc, keyword, max_pages, result, page, brk, all_items, notices, idx,
                connection, cursor, conns, requests, envs, pages, outcome, trace,
                exc, response, parseVars, twin, runs>>

\* insert_notice of run p: cursor.execute(upsert_sql, ...) returns, or
\* raises psycopg2.Error and the transaction is rolled back.
Execute(p) ==
    LET me == txn[p]
        n == parse_notice_data(me.notices[me.idx])
    IN  /\ me.idx <= Len(me.notices)
        /\ ~me.write.open
        /\ HasIdentity(n)
        /\ ~Blocked(p, n.notice_id)
        /\ now' = now + 1
        /\ \/ txn' = [txn EXCEPT ![p].write =
                        [open |-> TRUE,
                         conflict |-> \E r \in DOMAIN rows : rows[r].notice_id = n.notice_id,
                         n |-> n, t |-> now + 1]]
           \/ txn' = [txn EXCEPT ![p].idx = @ + 1]
        /\ UNCHANGED <<rows, commits>>
        /\ ConcFrame

\* insert_notice of run p: connection.commit(); the loop goes on.
Commit(p) ==
    LET me == txn[p]
    IN  /\ me.write.open
        /\ rows' = ApplyWrite(rows, me.write)
        /\ commits' = Append(commits, [run |-> p, n |-> me.write.n])
        /\ txn' = [txn EXCEPT ![p].write = NoWrite, ![p].idx = @ + 1]
        /\ UNCHANGED now
        /\ ConcFrame

ConcNext == \E p \in Runs : Execute(p) \/ Commit(p)

ConcSpec == ConcInit /\ [][ConcNext]_vars

\* ------------------------------------- run() entered at get_all_notices
\* The page loop against an upstream that serves one kind of item, with
\* larger page limits: the state of run() when get_all_notices is called.
DrainItems == { RawItem("A", "X", "org1", Missing) }

DrainInit ==
    /\ pc = "drain"
    /\ keyword \in Keywords
    /\ max_pages \in 0..DrainMaxPages
    /\ result = InitResult
    /\ page = 1
    /\ brk = FALSE
    /\ all_items = <<>>
    /\ notices = <<>>
    /\ idx = 1
    /\ connection = 1
    /\ cursor = 1
    /\ conns = <<NewConn>>
    /\ rows = <<>>
    /\ now = 1
    /\ requests = <<>>
    /\ envs = <<>>
    /\ pages = <<>>
    /\ outcome = <<>>
    /\ trace = <<"connect", "create_tables">>
    /\ exc = "none"
    /\ response = <<>>
    /\ fn = "none"
    /\ arg = PyNone
    /\ ret = <<>>
    /\ twin = <<>>
    /\ runs = 0
    /\ txn = <<>>
    /\ commits = <<>>

DrainSearchPage ==
    /\ pc = "drain"
    /\ ~brk
    /\ page <= max_pages
    /\ \E env \in Envelopes(DrainItems, DrainMaxDrained - Len(all_items), DrainMaxTotal) :
         PageStep(env)
    /\ UNCHANGED <<concVars, runs, twin, parseVars, response, keyword, max_pages, dbVars, recordVars>>

DrainNext ==
    \/ DrainSearchPage
    \/ GetAllReturn
    \/ Disconnect

DrainSpec == DrainInit /\ [][DrainNext]_vars

\* ----------------------------------------------------------------- claims
\* The number of elements of the sequence s that satisfy P.
Count(s, P(_)) == Cardinality({ i \in DOMAIN s : P(s[i]) })

RECURSIVE ConcatItems(_, _)
\* The items of the first k page results, in page order.
ConcatItems(ps, k) ==
    IF k = 0 THEN <<>> ELSE ConcatItems(ps, k - 1) \o ps[k].items.list

IsStorageFault(o) == o.tag \in { "fault", "lost" }
IsInserted(o) == o.tag = "inserted"

\* C1: a run whose records are all upserted (none skipped, none failing in
\* mapping), k of them with a storage fault, reports scraped_count = N,
\* inserted_count = N - k and exactly k entries in errors.
C1_FaultsAreRecorded ==
    (/\ pc = "returned"
     /\ result.success
     /\ \A i \in DOMAIN outcome : outcome[i].tag \in { "inserted", "fault", "lost" })
    => LET N == Len(notices)
           k == Count(outcome, IsStorageFault)
       IN  /\ result.scraped_count = N
           /\ result.inserted_count = N - k
           /\ Len(result.errors) = k

\* Page i ends the loop: it failed, had no items, or brought the running
\* total to the total_count it reported.
PageStops(ps, i) ==
    \/ ~ps[i].success
    \/ Len(ps[i].items.list) = 0
    \/ Len(ConcatItems(ps, i)) >= ps[i].total_count

CommittedIdx == { i \in DOMAIN outcome : IsInserted(outcome[i]) }
NoticeAt(i) == parse_notice_data(notices[i])
CommittedFor(id) == { i \in CommittedIdx : NoticeAt(i).notice_id = id }
CommittedIds == { NoticeAt(i).notice_id : i \in CommittedIdx }
RowsFor(id) == { r \in DOMAIN rows : rows[r].notice_id = id }

Max(S) == CHOOSE x \in S : \A y \in S : y <= x
Min(S) == CHOOSE x \in S : \A y \in S : x <= y

\* The store holds one row for each of ids, equal in its data fields to the
\* last committed upsert of that notice_id.
OneRowPerId(ids) ==
    \A id \in ids :
        /\ Cardinality(RowsFor(id)) = 1
        /\ \A r \in RowsFor(id) :
             LET n == NoticeAt(Max(CommittedFor(id)))
             IN  /\ rows[r].title = n.title
                 /\ rows[r].organization = n.organization
                 /\ rows[r].raw_data = n.raw_data

\* C3: after any sequence of committed upserts the store holds exactly one
\* row per notice_id upserted, and no other row, and the row's data fields
\* are those of the most recent committed upsert of that notice_id.
C3_OneRowPerNoticeId ==
    /\ OneRowPerId(CommittedIds)
    /\ \A r \in DOMAIN rows : rows[r].notice_id \in CommittedIds

\* C4: a row keeps the scraped_at of the first committed upsert of its
\* notice_id, and its updated_at is the time of the last one, strictly later
\* than the first when an upsert conflicted.
C4_ConflictRefreshesUpdatedAt ==
    \A r \in DOMAIN rows :
        (rows[r].notice_id # None) =>
            LET T == { outcome[i].at : i \in CommittedFor(rows[r].notice_id) }
            IN  /\ rows[r].scraped_at = Min(T)
                /\ rows[r].updated_at = Max(T)
                /\ (Cardinality(T) > 1) => (rows[r].updated_at > rows[r].scraped_at)

\* C4's case: an upsert has conflicted with an existing row.
C4_Witness ==
    \E r \in DOMAIN rows :
        /\ Cardinality(CommittedFor(rows[r].notice_id)) = 2
        /\ rows[r].updated_at > rows[r].scraped_at

\* C5: the connection a run acquired stays open while the run is under way
\* and has been closed exactly once when the run has returned.
C5_ReleasedExactlyOnce ==
    \A c \in DOMAIN conns :
        IF pc = "returned"
        THEN conns[c].closed /\ conns[c].closeCalls = 1
        ELSE ~conns[c].closed /\ conns[c].closeCalls = 0

\* C5's case: a run that acquired a connection and met a fault has returned.
C5_Witness ==
    /\ pc = "returned"
    /\ Len(conns) = 1
    /\ ~result.success
    /\ conns[1].closeCalls = 1

\* connect() was called in this run and returned no connection.
ConnectFailed == trace # <<>> /\ conns = <<>>

Steps == { trace[i] : i \in DOMAIN trace }

\* C6 as stated: when connect fails the fault leaves run() instead of coming
\* back as a summary, and no page is requested and no record upserted.
C6_ConnectFailurePropagates ==
    ConnectFailed =>
        /\ pc # "returned"
        /\ requests = <<>>
        /\ "upsert" \notin Steps

\* C6, amended: when connect fails, run() catches the fault and returns a
\* summary with success = false, zero counts and the one error; no page is
\* requested and no record upserted.
C6_ConnectFailureIsReported ==
    ConnectFailed =>
        /\ pc \in { "finally", "returned" }
        /\ result = [InitResult EXCEPT !.errors = << <<"pipeline", "connect">> >>]
        /\ requests = <<>>
        /\ Steps \subseteq { "connect", "disconnect" }
        /\ rows = <<>>

\* C6's case: a run whose connect failed has returned.
C6_Witness ==
    /\ ConnectFailed
    /\ pc = "returned"
    /\ ~result.success

\* An upstream answer that is a failure or a malformed envelope.
FaultyAnswer(env) ==
    \/ env.transport = "error"
    \/ env.json = "invalid"
    \/ env.response # "map"
    \/ env.header # "map"
    \/ env.resultCode # "00"
    \/ env.body = None
    \/ env.items.shape \in { "dict", "number" }

\* C7: search_bid_notices never raises, and answers every upstream failure
\* and every malformed envelope with success = false, an error message and
\* no items.
C7_SearchNeverRaises ==
    \A i \in DOMAIN pages :
        /\ ~pages[i].raised
        /\ FaultyAnswer(envs[i]) =>
             /\ ~pages[i].success
             /\ pages[i].error # ""
             /\ pages[i].items.list = <<>>

Absent(v) == v \in { None, "" }

\* C8: a mapped record whose notice_id and title are both absent or empty
\* is not upserted and adds nothing to inserted_count or errors; any other
\* mapped record is passed to insert_notice exactly once.
C8_IdentityMissingSkipped ==
    /\ \A i \in DOMAIN outcome :
         (notices[i].kind = "map") =>
             IF Absent(NoticeAt(i).notice_id) /\ Absent(NoticeAt(i).title)
             THEN /\ outcome[i].upserts = 0
                  /\ outcome[i].inserted = 0
                  /\ outcome[i].errors = 0
             ELSE outcome[i].upserts = 1
    /\ Cardinality({ i \in DOMAIN trace : trace[i] = "upsert" })
         = Cardinality({ i \in DOMAIN outcome : outcome[i].upserts = 1 })

\* C8's case: a run has skipped one record and upserted another.
C8_Witness ==
    /\ pc = "returned"
    /\ \E i, j \in DOMAIN outcome :
         /\ outcome[i].tag = "skipped"
         /\ outcome[j].tag = "inserted"
    /\ result.inserted_count = 1
    /\ result.errors = <<>>

Rank(step) ==
    CASE step = "connect" -> 1
      [] step = "create_tables" -> 2
      [] step = "search" -> 3
      [] step = "upsert" -> 4
      [] step = "report" -> 5
      [] step = "disconnect" -> 6

\* C9: the steps of a run occur in the order connect, create_tables, page
\* requests, upserts, report, disconnect; only page requests and upserts
\* repeat; a page request or upsert comes after create_tables completed.
C9_StepsInOrder ==
    /\ \A i, j \in DOMAIN trace :
         (i < j) =>
             /\ Rank(trace[i]) <= Rank(trace[j])
             /\ (trace[i] = trace[j]) => (trace[i] \in { "search", "upsert" })
    /\ (Steps \cap { "search", "upsert", "report" } # {}) =>
         /\ Len(trace) >= 2 /\ trace[1] = "connect" /\ trace[2] = "create_tables"
         /\ exc # "create_tables"
    /\ (pc = "returned") => (trace[Len(trace)] = "disconnect")

\* C9's case: a run with two page requests and two upserts has returned.
C9_Witness ==
    /\ pc = "returned"
    /\ trace = << "connect", "create_tables", "search", "search",
                  "upsert", "upsert", "report", "disconnect" >>

\* C10 as stated: only a failed connect aborts a run; any other run
\* processes every drained record and ends with success = true.
C10_OnlyConnectAborts ==
    (pc = "returned") =>
        IF ConnectFailed
        THEN ~result.success
        ELSE /\ result.success
             /\ Len(outcome) = Len(notices)
             /\ result.scraped_count = Len(notices)

\* The last page request ended in an exception that left get_all_notices.
DrainRaised ==
    /\ pages # <<>>
    /\ \/ pages[Len(pages)].raised
       \/ /\ pages[Len(pages)].success
          /\ pages[Len(pages)].items.list # <<>>
          /\ ~pages[Len(pages)].total_ok

\* C10, amended: a run ends with success = false exactly when connect
\* failed, create_tables failed or an exception left get_all_notices; a page
\* that search_bid_notices reports as failed and a fault in mapping or
\* storing a record are recovered: the run processes every drained record
\* and ends with success = true and the counts of what was retrieved.
C10_AbortingFaults ==
    (pc = "returned") =>
        /\ exc \in { "none", "connect", "create_tables", "drain" }
        /\ result.success <=> (exc = "none")
        /\ (exc = "connect") <=> ConnectFailed
        /\ (exc = "drain") <=> DrainRaised
        /\ (exc = "create_tables") => (conns # <<>> /\ requests = <<>>)
        /\ result.success =>
             /\ Len(outcome) = Len(notices)
             /\ notices = ConcatItems(pages, Len(pages))
             /\ result.scraped_count = Len(notices)
             /\ result.inserted_count = Count(outcome, IsInserted)
        /\ ~result.success =>
             /\ result.errors = << <<"pipeline", exc>> >>
             /\ result.inserted_count = 0
             /\ outcome = <<>>

\* C10's case: a successful run in which the second page failed and the
\* upsert of the one drained record failed.
C10_Witness ==
    /\ pc = "returned"
    /\ result.success
    /\ Len(pages) = 2 /\ ~pages[2].success
    /\ result.scraped_count = 1
    /\ \E i \in DOMAIN outcome : outcome[i].tag \in { "fault", "lost" }


Returned(f) == fn = f /\ ret # <<>>

\* C12 as stated: parse_date yields YYYY-MM-DD for a string of exactly 8
\* digits, the first 10 characters for a string with a hyphen and length
\* >= 10, and absence for every other input.
C12_OnlyEightDigits ==
    Returned("parse_date") =>
        LET t == arg.text
        IN  IF arg.type = "str" /\ Len(t) = 8 /\ IsDigit(t)
            THEN ret[1] = RetStr(DashDate(t))
            ELSE IF arg.type = "str" /\ Contains(t, "-") /\ Len(t) >= 10
            THEN ret[1] = RetStr(SubSeq(t, 1, 10))
            ELSE ret[1] = RetNone

\* C12 (amended): parse_date always returns; with t the text of a non-empty,
\* non-zero input without its surrounding blanks: 8 or more digits yield
\* YYYY-MM-DD of the first 8 digits, a text with a hyphen and 10 or more
\* characters yields its first 10 characters, anything else yields absence.
C12_ParseDateShapes ==
    Returned("parse_date") =>
        LET t == Strip(arg.text)
            r == ret[1]
        IN  /\ r.type \in { "NoneType", "str" }
            /\ (r.type = "str") <=>
                   /\ Bool(arg)
                   /\ \/ Len(t) >= 8 /\ \A i \in 1..Len(t) : t[i] \in Digits
                      \/ Len(t) >= 10 /\ \E i \in 1..Len(t) : t[i] = "-"
            /\ (r.type = "str") =>
                   /\ Len(r.text) = 10
                   /\ IF IsDigit(t)
                      THEN /\ \A i \in 1..4 : r.text[i] = t[i]
                           /\ r.text[5] = "-"
                           /\ r.text[6] = t[5] /\ r.text[7] = t[6]
                           /\ r.text[8] = "-"
                           /\ r.text[9] = t[7] /\ r.text[10] = t[8]
                      ELSE \A i \in 1..10 : r.text[i] = t[i]

\* Nine digits between blanks were given and a date came back.
C12_Witness ==
    /\ Returned("parse_date")
    /\ arg.type = "str"
    /\ Len(arg.text) = 10
    /\ arg.text[1] = " "
    /\ IsDigit(Strip(arg.text))
    /\ Len(Strip(arg.text)) = 9
    /\ ret[1].type = "str"


\* C13: for every input parse_price removes the commas, parses the rest as
\* a number and returns it truncated toward zero; an input that does not
\* parse as a number yields absence; it always returns.
C13_PriceOfEveryInput ==
    Returned("parse_price") =>
        LET s == RemoveCommas(arg.text)
        IN  IF FloatParses(s)
            THEN ret[1] = RetInt(IntOfFloat(s))
            ELSE ret[1] = RetNone


\* C15: within one get_all_notices call the pages requested are 1, 2, 3, ...
\* without gaps or repeats, at most max_pages of them; no page is requested
\* after a failed one; and when a page failed, get_all_notices returns the
\* items of the pages before it.
C15_PagesInOrderItemsKept ==
    /\ Len(requests) <= max_pages
    /\ \A i \in DOMAIN requests : requests[i].pageNo = i
    /\ \A i \in 1..(Len(pages) - 1) : pages[i].success
    /\ (pc # "drain" /\ pages # <<>> /\ ~pages[Len(pages)].success) =>
           /\ pc = "records"
           /\ notices = ConcatItems(pages, Len(pages) - 1)


\* C16: in every state of run, 0 <= inserted_count <= scraped_count; a run
\* that ended with success = true has inserted_count + |errors| + skipped
\* records <= scraped_count; and no record adds to both inserted_count and
\* errors.
C16_CountsPartition ==
    LET skipped(o) == o.tag = "skipped"
    IN  /\ 0 <= result.inserted_count
        /\ result.inserted_count <= result.scraped_count
        /\ result.success =>
               result.inserted_count + Len(result.errors) + Count(outcome, skipped)
                   <= result.scraped_count
        /\ \A i \in DOMAIN outcome : outcome[i].inserted + outcome[i].errors <= 1


\* C17: the summary that run returns has success = true exactly when
\* neither connect, create_tables nor get_all_notices raised, whatever
\* happened to the records; and a summary with success = false has at
\* least one entry in errors.
C17_SuccessIffNoAbort ==
    pc = "returned" =>
        /\ result.success <=> (exc = "none")
        /\ ~result.success => result.errors # <<>>

\* A run returned success = true although its first page failed and
\* nothing was drained, or although none of its records was inserted.
C17_Witness ==
    /\ pc = "returned"
    /\ result.success
    /\ result.inserted_count = 0
    /\ \/ Len(pages) = 1 /\ ~pages[1].success /\ result.scraped_count = 0
       \/ /\ result.scraped_count = 2
          /\ outcome[1].tag = "fault"
          /\ outcome[2].tag = "skipped"


C19_NoSecondClose ==
    \A c \in DOMAIN conns :
        /\ conns[c].closeCalls <= 1
        /\ conns[c].cursorCloseCalls <= 1
        /\ (pc = "returned" \/ c < Len(conns)) => conns[c].closeCalls = 1


\* C20: after any sequence of runs no two rows have the same notice_id and
\* the rows are no more than the distinct notice_id values upserted; an
\* item with a title and without identifier is stored under the notice_id
\* '', in one row that holds the last such item.
C20_NoSharedNoticeId ==
    /\ \A r1, r2 \in DOMAIN rows :
           r1 # r2 => rows[r1].notice_id # rows[r2].notice_id
    /\ Cardinality(DOMAIN rows) <= Cardinality({ rows[r].notice_id : r \in DOMAIN rows })
    /\ \A i \in CommittedIdx :
           notices[i].bidNtceNo = Missing => NoticeAt(i).notice_id = ""
    /\ OneRowPerId(CommittedIds \cap { "" })


\* The commits of overlapping runs for the notice_id id, in commit order.
CommitsFor(id) == { i \in DOMAIN commits : commits[i].n.notice_id = id }

\* C14: however two overlapping runs that upsert one notice_id interleave,
\* the store has exactly one row for it, and the data fields of that row are
\* all those of the upsert that committed last.
C14_LastCommitWins ==
    \A id \in { commits[i].n.notice_id : i \in DOMAIN commits } :
        /\ Cardinality(RowsFor(id)) = 1
        /\ \A r \in RowsFor(id) :
             LET last == commits[Max(CommitsFor(id))].n
             IN  /\ rows[r].title = last.title
                 /\ rows[r].organization = last.organization
                 /\ rows[r].raw_data = last.raw_data

\* Both runs are over; their commits alternated (1, 2, 1) and the last two
\* differ in title and organization.
C14_Witness ==
    /\ \A p \in Runs : txn[p].idx > Len(txn[p].notices) /\ ~txn[p].write.open
    /\ Len(commits) >= 3
    /\ commits[1].run = 1 /\ commits[2].run = 2 /\ commits[3].run = 1
    /\ commits[2].n.title # commits[3].n.title
    /\ commits[2].n.organization # commits[3].n.organization

====
